---------------------------- MODULE Spec2Model ----------------------------
(***************************************************************************)
(* A model of webcapture (src/webcapture/webcapture.py): the CLI entry,    *)
(* the terminal menu and its raw keypress reader, the batch capture loop   *)
(* and the interactive multi-width capture session.                        *)
(*                                                                         *)
(* Python strings are modelled as sequences of one-character strings, so   *)
(* that strip(), lower(), split(','), replace() and int() are computed the *)
(* way the code computes them.  The control characters are the tokens      *)
(* "ESC" (0x1b), "CR", "LF" and "ETX" (0x03).                              *)
(*                                                                         *)
(* Exceptions are modelled by name: a step that raises hands the name to   *)
(* the enclosing handlers, which catch it or let it propagate as Python    *)
(* does; an exception nothing catches ends the process.                    *)
(*                                                                         *)
(* Not modelled: the dark-mode flag and the wait option (they are read     *)
(* and passed to the browser, and take no part in control flow beyond a    *)
(* navigation failure, which is a nondeterministic outcome here); the      *)
(* never-called interactive branch of capture_screenshot; the clock; an    *)
(* end of input or a SIGINT at the plain prompts of handle_menu_selection  *)
(* and advanced_options (both are modelled at the menu's key read, at the  *)
(* session's prompt and during page.goto).                                 *)
(***************************************************************************)
EXTENDS Integers, Sequences, FiniteSets, TLC

(***************************************************************************)
(* Bounds of the model.                                                    *)
(***************************************************************************)
\* capture rounds an interactive session is followed for
MaxRounds == 2

(***************************************************************************)
(* Program constants.                                                      *)
(***************************************************************************)
DEFAULT_WIDTH == 1920

DEFAULT_FORMAT == <<"p", "n", "g">>

\* len(options) of the main menu
NumOptions == 5

\* the index of the "Exit" option
ExitOption == 4

PRESETS ==
    [name \in { <<"m","o","b","i","l","e">>, <<"t","a","b","l","e","t">>,
                <<"s","m","a","l","l">>, <<"l","a","p","t","o","p">>,
                <<"m","e","d","i","u","m">>, <<"d","e","s","k","t","o","p">>,
                <<"l","a","r","g","e">>, <<"u","l","t","r","a","w","i","d","e">>,
                <<"p","r","e","s","e","n","t","a","t","i","o","n">> } |->
        CASE name = <<"m","o","b","i","l","e">> -> 375
          [] name = <<"t","a","b","l","e","t">> -> 768
          [] name = <<"s","m","a","l","l">> -> 1024
          [] name = <<"l","a","p","t","o","p">> -> 1440
          [] name = <<"m","e","d","i","u","m">> -> 1366
          [] name = <<"d","e","s","k","t","o","p">> -> 1920
          [] name = <<"l","a","r","g","e">> -> 2560
          [] name = <<"u","l","t","r","a","w","i","d","e">> -> 3440
          [] OTHER -> 1280]

\* the formats the validation of cli_mode and handle_menu_selection accepts
ValidFormats ==
    { <<"p","n","g">>, <<"j","p","e","g">>, <<"w","e","b","p">> }

\* the widths of the menu's "Multiple widths" option
MultiplePreset == <<375, 768, 1920>>

(***************************************************************************)
(* str methods.                                                            *)
(***************************************************************************)
IsSpace(c) == c \in {" ", "CR", "LF"}

RECURSIVE LStrip(_)
LStrip(s) ==
    IF s # <<>> /\ IsSpace(Head(s)) THEN LStrip(Tail(s)) ELSE s

RECURSIVE RStrip(_)
RStrip(s) ==
    IF s # <<>> /\ IsSpace(s[Len(s)]) THEN RStrip(SubSeq(s, 1, Len(s) - 1)) ELSE s

\* str.strip()
Strip(s) == RStrip(LStrip(s))

LowerChar(c) ==
    CASE c = "A" -> "a" [] c = "B" -> "b" [] c = "D" -> "d" [] c = "E" -> "e"
      [] c = "G" -> "g" [] c = "I" -> "i" [] c = "J" -> "j" [] c = "L" -> "l"
      [] c = "M" -> "m" [] c = "N" -> "n" [] c = "O" -> "o" [] c = "P" -> "p"
      [] c = "Q" -> "q" [] c = "U" -> "u" [] c = "W" -> "w" [] c = "Y" -> "y"
      [] OTHER -> c

\* str.lower()
Lower(s) == [i \in 1..Len(s) |-> LowerChar(s[i])]

\* str.startswith(p)
StartsWith(s, p) == Len(s) >= Len(p) /\ SubSeq(s, 1, Len(p)) = p

Drop(s, n) == SubSeq(s, n + 1, Len(s))

\* str.replace(pat, rep), pat non-empty: every non-overlapping occurrence,
\* scanning from the left
RECURSIVE Replace(_, _, _)
Replace(s, pat, rep) ==
    IF s = <<>> THEN <<>>
    ELSE IF StartsWith(s, pat) THEN rep \o Replace(Drop(s, Len(pat)), pat, rep)
    ELSE <<Head(s)>> \o Replace(Tail(s), pat, rep)

\* the index of the first character of s that is in cs, or Len(s) + 1
RECURSIVE FirstOf(_, _, _)
FirstOf(s, cs, i) ==
    IF i > Len(s) \/ s[i] \in cs THEN i ELSE FirstOf(s, cs, i + 1)

\* str.split(c): always at least one item ("".split(',') = [''])
RECURSIVE Split(_, _)
Split(s, c) ==
    LET i == FirstOf(s, {c}, 1)
    IN  IF i > Len(s) THEN <<s>>
        ELSE <<SubSeq(s, 1, i - 1)>> \o Split(Drop(s, i), c)

Digits == {"0", "1", "2", "3", "4", "5", "6", "7", "8", "9"}

DigitVal(c) ==
    CASE c = "0" -> 0 [] c = "1" -> 1 [] c = "2" -> 2 [] c = "3" -> 3
      [] c = "4" -> 4 [] c = "5" -> 5 [] c = "6" -> 6 [] c = "7" -> 7
      [] c = "8" -> 8 [] OTHER -> 9

RECURSIVE DecimalValue(_, _)
DecimalValue(s, acc) ==
    IF s = <<>> THEN acc ELSE DecimalValue(Tail(s), 10 * acc + DigitVal(Head(s)))

\* int(s): surrounding whitespace, an optional sign, then decimal digits;
\* anything else raises ValueError (ok = FALSE)
ParseInt(s) ==
    LET t == Strip(s)
        signed == t # <<>> /\ Head(t) \in {"+", "-"}
        d == IF signed THEN Tail(t) ELSE t
        ok == d # <<>> /\ \A i \in 1..Len(d) : d[i] \in Digits
        v == IF ok THEN DecimalValue(d, 0) ELSE 0
    IN  [ok |-> ok, val |-> IF signed /\ Head(t) = "-" THEN 0 - v ELSE v]

(***************************************************************************)
(* URL validation and file names.                                          *)
(***************************************************************************)
HttpPrefix == <<"h","t","t","p",":","/","/">>

HttpsPrefix == <<"h","t","t","p","s",":","/","/">>

\* urlparse(url).netloc of a URL that starts with http:// or https://: what
\* follows the "//" up to the first "/", "?" or "#"
Netloc(url) ==
    LET rest == IF StartsWith(url, HttpsPrefix) THEN Drop(url, Len(HttpsPrefix))
                ELSE IF StartsWith(url, HttpPrefix) THEN Drop(url, Len(HttpPrefix))
                ELSE <<>>
    IN  SubSeq(rest, 1, FirstOf(rest, {"/", "?", "#"}, 1) - 1)

\* the normalised URL, or <<>> for None
validate_url(url) ==
    LET u == IF StartsWith(url, HttpPrefix) \/ StartsWith(url, HttpsPrefix)
             THEN url ELSE HttpsPrefix \o url
    IN  IF Netloc(u) = <<>> THEN <<>> ELSE u

sanitize_filename(url) ==
    Replace(Replace(Netloc(url), <<"w","w","w",".">>, <<>>), <<".">>, <<"-">>)

\* Desktop/<base>_<width>px_<timestamp>.<format>; idx holds the "_<n>"
\* segment that the capture loops insert between the stem and the suffix.
\* The clock is not modelled: the timestamp is the opaque text "timestamp",
\* the same in every name of a run, so that the names of one request
\* differ by host, width, index and extension
get_output_filename(url, width, output_format) ==
    [base |-> sanitize_filename(url), width |-> width, ts |-> "timestamp",
     idx |-> <<>>, ext |-> output_format]

\* output_path.parent / f"{stem}_{capture_round}{suffix}"
WithRound(path, capture_round) ==
    [path EXCEPT !.idx = @ \o <<capture_round>>]

\* Path.with_suffix('.png')
WithSuffixPng(path) == [path EXCEPT !.ext = <<"p","n","g">>]

(***************************************************************************)
(* Inputs: the command-line words and the lines typed at the prompts.      *)
(***************************************************************************)
\* "a.co", "xwww.co", "https://www.b.io/x", and two without a host:
\* "http://" and the empty string
UrlInputs ==
    { <<"a",".","c","o">>,
      <<"x","w","w","w",".","c","o">>,
      <<"h","t","t","p","s",":","/","/","w","w","w",".","b",".","i","o","/","x">>,
      <<"h","t","t","p",":","/","/">>,
      <<>> }

\* the URLs the page of an interactive session may be at
PageUrls ==
    { validate_url(u) : u \in { v \in UrlInputs : validate_url(v) # <<>> } }

\* "8", "7,x,12", "Mobile, 9", "x" and the empty string
WidthInputs ==
    { <<"8">>,
      <<"7",",","x",",","1","2">>,
      <<"M","o","b","i","l","e",","," ","9">>,
      <<"x">>,
      <<>> }

\* "PNG", "webp", "gif" and the empty string
FormatInputs ==
    { <<"P","N","G">>, <<"w","e","b","p">>, <<"g","i","f">>, <<>> }

\* "Y" and "n"
YesNoInputs == { <<"Y">>, <<"n">> }

\* the lines typed at the capture prompt: "", "q", " Q" and "x"
WaitLines == { <<>>, <<"q">>, <<" ","Q">>, <<"x">> }

\* what one raw read delivers: the first byte and, after ESC, two more
RawReads ==
    { <<"ESC","[","A">>, <<"ESC","[","B">>, <<"ESC","[","C">>,
      <<"CR">>, <<"LF">>, <<"ETX">>, <<"x">> }

\* the lines typed at the non-tty fallback: "", "up", "down", "enter",
\* "quit", "q" and "Up"
KeyLines ==
    { <<>>, <<"u","p">>, <<"d","o","w","n">>, <<"e","n","t","e","r">>,
      <<"q","u","i","t">>, <<"q">>, <<"U","p">> }

KeyUp == <<"u","p">>

KeyDown == <<"d","o","w","n">>

KeyEnter == <<"e","n","t","e","r">>

KeyQuit == <<"q","u","i","t">>

Webp == <<"w","e","b","p">>

NoPath == [base |-> <<>>, width |-> 0, ts |-> "", idx |-> <<>>, ext |-> <<>>]

(***************************************************************************)
(* Parsing the request.                                                    *)
(***************************************************************************)
\* one token of cli_mode / advanced_options: a preset name, else int(),
\* else skipped (<<>>)
WidthToken(tok) ==
    LET item == Lower(Strip(tok))
    IN  IF item \in DOMAIN PRESETS THEN <<PRESETS[item]>>
        ELSE IF ParseInt(item).ok THEN <<ParseInt(item).val>>
        ELSE <<>>

RECURSIVE WidthTokens(_)
WidthTokens(toks) ==
    IF toks = <<>> THEN <<>> ELSE WidthToken(Head(toks)) \o WidthTokens(Tail(toks))

\* the loop of cli_mode and of advanced_options over widths.split(',')
ParseWidths(line) == WidthTokens(Split(line, ","))

\* cli_mode: --widths absent or empty, or nothing valid in it: the default
CliWidths(line) ==
    IF line = <<>> \/ ParseWidths(line) = <<>> THEN <<DEFAULT_WIDTH>>
    ELSE ParseWidths(line)

\* handle_menu_selection, Custom: [int(w.strip()) for w in custom.split(',')]
\* inside one try: a single ValueError rejects the whole line
CustomWidths(line) ==
    LET toks == Split(line, ",")
        allOk == \A i \in 1..Len(toks) : ParseInt(toks[i]).ok
    IN  [ok |-> allOk,
         widths |-> IF allOk THEN [i \in 1..Len(toks) |-> ParseInt(toks[i]).val]
                    ELSE <<>>]

\* cli_mode: args.format.lower(), replaced by png unless png, jpeg or webp
CliFormat(f) ==
    IF Lower(f) \in ValidFormats THEN Lower(f) ELSE DEFAULT_FORMAT

\* input("> ").strip().lower() or 'png'
PromptFormat(line) ==
    IF Lower(Strip(line)) = <<>> THEN DEFAULT_FORMAT ELSE Lower(Strip(line))

\* handle_menu_selection: the prompted format, replaced by png unless valid
MenuFormat(line) ==
    IF PromptFormat(line) \in ValidFormats THEN PromptFormat(line)
    ELSE DEFAULT_FORMAT

\* advanced_options: the prompted format as it is
AdvancedFormat(line) == PromptFormat(line)

\* input("> ").strip().lower() == 'y'
PromptYes(line) == Lower(Strip(line)) = <<"y">>

(***************************************************************************)
(* The state.                                                              *)
(***************************************************************************)
VARIABLES
    pc,                  \* where the program is
    handler,             \* the SIGINT disposition: "default" or "signal_handler"
    tty,                 \* stdin is a terminal
    termMode,            \* the terminal's settings: "cooked", "noecho" or "raw"
                         \* ("none" when stdin is no terminal)
    old_settings,        \* get_key: what tcgetattr returned
    playwrightInstalled, \* the playwright import succeeds
    convertInstalled,    \* the 'convert' executable is on the PATH
    files,               \* the files the current request has left on disk
    selected,            \* interactive_mode: the selected index
    key,                 \* interactive_mode: what get_key returned
    keyLine,             \* get_key: the line the fallback read, <<"none">> after a raw read
    entry,               \* who built the request: "cli", "single", "multiple",
                         \* "custom", "advanced"; "menu" in the menu loop
    url, widths, fmt, interactive,  \* the capture request
    widthsLine,          \* the text the widths were parsed from
    rejected,            \* the last request was refused for its widths
    idx,                 \* batch loop: the 1-based position in widths
    success_count,       \* batch loop
    outcomes,            \* batch loop: the widths attempted so far, each with
                         \* what capture_screenshot returned for it
    output_path,         \* the path of the capture in hand
    ret,                 \* the return value of the capture function
    pw,                  \* sync_playwright(): "none", "running" or "stopped"
    browser,             \* "none", "open", or "closed" once browser.close() has run
    context,             \* "none", "open", or "closed" once context.close() has run
    capture_round, total_captures,  \* capture_interactive_multiwidth
    widx,                \* session: the 1-based position in widths of the round
    current_url,         \* session: page.url at the start of the round
    lineIn,              \* session: the line input() returned last
    shots,               \* session: the captures made, in order
    report,              \* what the final report line printed
    exitCode,            \* the exit status, -1 while running
    uncaught,            \* the exception that ended the process, "none" if none
    exitAt               \* where the program was when it ended

envVars == <<tty, playwrightInstalled, convertInstalled>>

termVars == <<termMode, old_settings>>

menuVars == <<selected, key, keyLine>>

reqVars == <<entry, url, widths, fmt, interactive, widthsLine, rejected>>

batchVars == <<idx, success_count, outcomes>>

callVars == <<output_path, ret, pw, browser, context>>

sessVars == <<capture_round, total_captures, widx, current_url, lineIn, shots>>

endVars == <<exitCode, uncaught, exitAt>>

vars ==
    <<pc, handler, envVars, termVars, files, menuVars, reqVars, batchVars,
      callVars, sessVars, report, endVars>>

NoReport == <<>>

Init ==
    /\ pc = "main"
    /\ handler = "default"
    /\ tty \in BOOLEAN
    /\ termMode \in (IF tty THEN {"cooked", "noecho"} ELSE {"none"})
    /\ old_settings = "none"
    /\ playwrightInstalled \in BOOLEAN
    /\ convertInstalled \in BOOLEAN
    /\ files = {}
    /\ selected = 0
    /\ key = <<>>
    /\ keyLine = <<"none">>
    /\ entry = "none"
    /\ url = <<>>
    /\ widths = <<>>
    /\ fmt = <<>>
    /\ interactive = FALSE
    /\ widthsLine = <<>>
    /\ rejected = FALSE
    /\ idx = 1
    /\ success_count = 0
    /\ outcomes = <<>>
    /\ output_path = NoPath
    /\ ret = FALSE
    /\ pw = "none"
    /\ browser = "none"
    /\ context = "none"
    /\ capture_round = 0
    /\ total_captures = 0
    /\ widx = 1
    /\ current_url = <<>>
    /\ lineIn = <<>>
    /\ shots = <<>>
    /\ report = NoReport
    /\ exitCode = -1
    /\ uncaught = "none"
    /\ exitAt = "none"

(***************************************************************************)
(* Exceptions and process exit.                                            *)
(***************************************************************************)
\* `except Exception` catches everything but the BaseException-only classes
IsException(e) == e \notin {"SystemExit", "KeyboardInterrupt"}

\* what a SIGINT raises in the main thread: signal_handler calls sys.exit(0),
\* Python's default handler raises KeyboardInterrupt
Sigint == IF handler = "signal_handler" THEN "SystemExit" ELSE "KeyboardInterrupt"

\* the process ends with exception e uncaught (SystemExit carries its code)
Terminate(e, code) ==
    /\ pc' = "exited"
    /\ uncaught' = e
    /\ exitCode' = code
    /\ exitAt' = pc

\* e leaves cli_mode or interactive_mode and reaches main: the menu loop of
\* main turns KeyboardInterrupt into sys.exit(0); anything else ends the
\* process, SystemExit(0) with status 0 and a traceback with status 1
Propagate(e) ==
    IF e = "KeyboardInterrupt" /\ entry # "cli" THEN Terminate("SystemExit", 0)
    ELSE IF e = "SystemExit" THEN Terminate(e, 0)
    ELSE Terminate(e, 1)

(***************************************************************************)
(* main and cli_mode.                                                      *)
(***************************************************************************)
\* main: installs signal_handler, then the menu loop when no URL is given
\* (`not args.url`: absent or empty), cli_mode otherwise
main ==
    /\ pc = "main"
    /\ handler' = "signal_handler"
    /\ \E hasUrl \in BOOLEAN :
          /\ pc' = IF hasUrl THEN "cli_mode" ELSE "menu"
          /\ entry' = IF hasUrl THEN "cli" ELSE "menu"
    /\ UNCHANGED <<envVars, termVars, files, menuVars, url, widths, fmt,
                   interactive, widthsLine, rejected, batchVars, callVars,
                   sessVars, report, endVars>>

\* cli_mode up to the capture: the URL, the widths and the format
cli_mode ==
    /\ pc = "cli_mode"
    /\ \E u \in UrlInputs \ {<<>>}, w \in WidthInputs, f \in FormatInputs,
          i \in BOOLEAN :
          IF validate_url(u) = <<>>
          THEN /\ Terminate("SystemExit", 1)
               /\ UNCHANGED <<url, widths, fmt, interactive, widthsLine>>
          ELSE /\ url' = validate_url(u)
               /\ widths' = CliWidths(w)
               /\ widthsLine' = w
               /\ fmt' = CliFormat(f)
               /\ interactive' = i
               /\ pc' = IF i THEN "sess_start" ELSE "batch_loop"
               /\ UNCHANGED endVars
    /\ UNCHANGED <<handler, envVars, termVars, files, menuVars, entry,
                   rejected, batchVars, callVars, sessVars, report>>

(***************************************************************************)
(* get_key and interactive_mode.                                           *)
(***************************************************************************)
\* get_key, the classification of what was read in raw mode
ClassifyRaw(bytes) ==
    IF Head(bytes) = "ESC"
    THEN IF bytes = <<"ESC", "[", "A">> THEN KeyUp
         ELSE IF bytes = <<"ESC", "[", "B">> THEN KeyDown
         ELSE bytes
    ELSE IF Head(bytes) \in {"CR", "LF"} THEN KeyEnter
    ELSE IF Head(bytes) = "ETX" THEN KeyQuit
    ELSE bytes

\* a variant of get_key's restore: after the read, not in a finally clause
get_key_restore_on_return_only(returned) ==
    termMode' = IF returned THEN old_settings ELSE termMode

\* get_key, the finally clause: termios.tcsetattr(fd, TCSADRAIN, old_settings);
\* it runs when the try block returns (returned) and when it raises
get_key_finally(returned) == termMode' = old_settings

\* get_key up to the read: tcgetattr and tty.setraw; without a terminal
\* tcgetattr raises and the bare except takes over
get_key_setraw ==
    /\ pc = "menu"
    /\ IF tty
       THEN /\ old_settings' = termMode
            /\ termMode' = "raw"
            /\ pc' = "key_raw"
       ELSE /\ pc' = "key_fallback"
            /\ UNCHANGED termVars
    /\ UNCHANGED <<handler, envVars, files, menuVars, reqVars, batchVars,
                   callVars, sessVars, report, endVars>>

\* get_key: the read in raw mode returns and is classified
get_key_read ==
    /\ pc = "key_raw"
    /\ \E bytes \in RawReads : key' = ClassifyRaw(bytes)
    /\ keyLine' = <<"none">>
    /\ get_key_finally(TRUE)
    /\ pc' = "menu_dispatch"
    /\ UNCHANGED <<handler, envVars, old_settings, files, selected, reqVars,
                   batchVars, callVars, sessVars, report, endVars>>

\* get_key: the read in raw mode raises (an I/O error, or a SIGINT, whose
\* handler raises SystemExit): finally, then the bare except
get_key_read_raises ==
    /\ pc = "key_raw"
    /\ get_key_finally(FALSE)
    /\ pc' = "key_fallback"
    /\ UNCHANGED <<handler, envVars, old_settings, files, menuVars, reqVars,
                   batchVars, callVars, sessVars, report, endVars>>

\* get_key, the except clause: return input().strip()
get_key_fallback ==
    /\ pc = "key_fallback"
    /\ \E line \in KeyLines :
          /\ keyLine' = line
          /\ key' = Strip(line)
    /\ pc' = "menu_dispatch"
    /\ UNCHANGED <<handler, envVars, termVars, files, selected, reqVars,
                   batchVars, callVars, sessVars, report, endVars>>

\* get_key, the except clause: input() raises EOFError, or a SIGINT arrives;
\* nothing on the way to main catches either
get_key_fallback_raises ==
    /\ pc = "key_fallback"
    /\ \E e \in {"EOFError", Sigint} : Propagate(e)
    /\ UNCHANGED <<handler, envVars, termVars, files, menuVars, reqVars,
                   batchVars, callVars, sessVars, report>>

\* a variant of Up: the index stops at the first option
MenuUpClamped(sel) == IF sel = 0 THEN 0 ELSE sel - 1

\* selected = (selected - 1) % len(options)
MenuUp(sel) == (sel - 1) % NumOptions

\* selected = (selected + 1) % len(options)
MenuDown(sel) == (sel + 1) % NumOptions

\* interactive_mode: the if/elif chain on the key
interactive_mode ==
    /\ pc = "menu_dispatch"
    /\ IF key = KeyUp
       THEN /\ selected' = MenuUp(selected)
            /\ pc' = "menu"
            /\ UNCHANGED endVars
       ELSE IF key = KeyDown
       THEN /\ selected' = MenuDown(selected)
            /\ pc' = "menu"
            /\ UNCHANGED endVars
       ELSE IF key = KeyEnter
       THEN IF selected = ExitOption
            THEN /\ Terminate("SystemExit", 0)
                 /\ UNCHANGED selected
            ELSE /\ pc' = "hms"
                 /\ UNCHANGED <<selected, endVars>>
       ELSE IF key = KeyQuit
       THEN /\ Terminate("SystemExit", 0)
            /\ UNCHANGED selected
       ELSE /\ pc' = "menu"
            /\ UNCHANGED <<selected, endVars>>
    /\ UNCHANGED <<handler, envVars, termVars, files, key, keyLine, reqVars,
                   batchVars, callVars, sessVars, report>>

(***************************************************************************)
(* handle_menu_selection and advanced_options, up to the capture.          *)
(***************************************************************************)
\* back in main's `while True: interactive_mode()` with nothing captured:
\* the menu starts again at index 0
BackToMenu ==
    /\ pc' = "menu"
    /\ selected' = 0

\* Single, Multiple and Custom: the URL, the widths, the format
handle_menu_selection ==
    /\ pc = "hms"
    /\ selected \in {0, 1, 2}
    /\ \E uline \in UrlInputs, wline \in WidthInputs, fline \in FormatInputs,
          iline \in YesNoInputs :
          LET u == validate_url(Strip(uline))
              custom == CustomWidths(Strip(wline))
          IN  IF u = <<>>
              THEN /\ BackToMenu
                   /\ entry' = "menu"
                   /\ rejected' = FALSE
                   /\ UNCHANGED <<url, widths, fmt, interactive, widthsLine>>
              ELSE IF selected = 2 /\ ~custom.ok
              THEN /\ BackToMenu
                   /\ entry' = "custom"
                   /\ rejected' = TRUE
                   /\ widthsLine' = wline
                   /\ widths' = <<>>
                   /\ UNCHANGED <<url, fmt, interactive>>
              ELSE /\ url' = u
                   /\ entry' = CASE selected = 0 -> "single"
                                 [] selected = 1 -> "multiple"
                                 [] OTHER -> "custom"
                   /\ widths' = CASE selected = 0 -> <<DEFAULT_WIDTH>>
                                  [] selected = 1 -> MultiplePreset
                                  [] OTHER -> custom.widths
                   /\ widthsLine' = IF selected = 2 THEN wline ELSE <<>>
                   /\ rejected' = FALSE
                   /\ fmt' = MenuFormat(fline)
                   /\ interactive' = PromptYes(iline)
                   /\ pc' = IF PromptYes(iline) THEN "sess_start" ELSE "batch_loop"
                   /\ UNCHANGED selected
    /\ UNCHANGED <<handler, envVars, termVars, files, key, keyLine,
                   batchVars, callVars, sessVars, report, endVars>>

\* Advanced: the URL (read by handle_menu_selection), then advanced_options
advanced_options ==
    /\ pc = "hms"
    /\ selected = 3
    /\ \E uline \in UrlInputs, wline \in WidthInputs, fline \in FormatInputs,
          iline \in YesNoInputs :
          LET u == validate_url(Strip(uline))
              parsed == ParseWidths(Strip(wline))
          IN  IF u = <<>>
              THEN /\ BackToMenu
                   /\ entry' = "menu"
                   /\ rejected' = FALSE
                   /\ UNCHANGED <<url, widths, fmt, interactive, widthsLine>>
              ELSE IF parsed = <<>>
              THEN /\ BackToMenu
                   /\ entry' = "advanced"
                   /\ rejected' = TRUE
                   /\ widthsLine' = wline
                   /\ widths' = <<>>
                   /\ UNCHANGED <<url, fmt, interactive>>
              ELSE /\ url' = u
                   /\ entry' = "advanced"
                   /\ widths' = parsed
                   /\ widthsLine' = wline
                   /\ rejected' = FALSE
                   /\ fmt' = AdvancedFormat(fline)
                   /\ interactive' = PromptYes(iline)
                   /\ pc' = IF PromptYes(iline) THEN "sess_start" ELSE "batch_loop"
                   /\ UNCHANGED selected
    /\ UNCHANGED <<handler, envVars, termVars, files, key, keyLine,
                   batchVars, callVars, sessVars, report, endVars>>

(***************************************************************************)
(* Screenshots and the webp conversion.                                    *)
(***************************************************************************)
\* page.screenshot(path=...) takes the image type from the extension and
\* raises for anything but png and jpeg
ScreenshotSupported(path) == path.ext \in { <<"p","n","g">>, <<"j","p","e","g">> }

\* the first file page.screenshot is asked to write for output path `path`
ScreenshotTarget(path) == IF path.ext = Webp THEN WithSuffixPng(path) ELSE path

\* what `convert` may do: it is missing (FileNotFoundError), or it runs and
\* either succeeds or exits non-zero (CalledProcessError)
ConvertOutcomes ==
    IF convertInstalled THEN {"ok", "CalledProcessError"} ELSE {"FileNotFoundError"}

\* _convert_to_webp: the files on disk afterwards; on success the webp is
\* written and the PNG unlinked, on either error the PNG is kept and the
\* function returns normally
convert_to_webp(fs, png_path, webp_path, out) ==
    IF out = "ok" THEN (fs \ {png_path}) \cup {webp_path} ELSE fs

(***************************************************************************)
(* The batch loop (cli_mode, handle_menu_selection, advanced_options) and  *)
(* capture_screenshot(interactive=False).                                  *)
(***************************************************************************)
\* a variant of capture_screenshot's handler: `except TimeoutError`
capture_screenshot_catches_timeout_only(e) == e = "TimeoutError"

\* capture_screenshot: `except Exception as e`
capture_screenshot_catches(e) == IsException(e)

\* an exception raised inside `with sync_playwright()`: the with block stops
\* playwright, then the except clause returns False, or the exception
\* leaves the function; context.close() and browser.close() are skipped
capture_screenshot_except(e) ==
    /\ pw' = "stopped"
    /\ IF capture_screenshot_catches(e)
       THEN /\ ret' = FALSE
            /\ pc' = "batch_after"
            /\ UNCHANGED endVars
       ELSE /\ Propagate(e)
            /\ UNCHANGED ret

\* for width in widths: get_output_filename, then capture_screenshot up to
\* the import of playwright
batch_next ==
    /\ pc = "batch_loop"
    /\ idx <= Len(widths)
    /\ output_path' = get_output_filename(url, widths[idx], fmt)
    /\ pw' = "none"
    /\ browser' = "none"
    /\ context' = "none"
    /\ IF playwrightInstalled
       THEN /\ pc' = "cap_launch"
            /\ UNCHANGED ret
       ELSE /\ pc' = "batch_after"
            /\ ret' = FALSE
    /\ UNCHANGED <<handler, envVars, termVars, files, menuVars, reqVars,
                   batchVars, sessVars, report, endVars>>

\* sync_playwright() and p.chromium.launch
capture_screenshot_launch ==
    /\ pc = "cap_launch"
    /\ \E ok \in BOOLEAN :
          IF ok
          THEN /\ pw' = "running"
               /\ browser' = "open"
               /\ pc' = "cap_context"
               /\ UNCHANGED <<ret, endVars>>
          ELSE /\ capture_screenshot_except("Error")
               /\ UNCHANGED browser
    /\ UNCHANGED <<handler, envVars, termVars, files, menuVars, reqVars,
                   batchVars, output_path, context, sessVars, report>>

\* browser.new_context and context.new_page
capture_screenshot_new_context ==
    /\ pc = "cap_context"
    /\ \E ok \in BOOLEAN :
          IF ok
          THEN /\ context' = "open"
               /\ pc' = "cap_goto"
               /\ UNCHANGED <<pw, ret, endVars>>
          ELSE /\ capture_screenshot_except("Error")
               /\ UNCHANGED context
    /\ UNCHANGED <<handler, envVars, termVars, files, menuVars, reqVars,
                   batchVars, output_path, browser, sessVars, report>>

\* page.goto: it returns, it times out, or a SIGINT arrives during it
capture_screenshot_goto ==
    /\ pc = "cap_goto"
    /\ \E out \in {"ok", "TimeoutError", Sigint} :
          IF out = "ok"
          THEN /\ pc' = "cap_shot"
               /\ UNCHANGED <<pw, ret, endVars>>
          ELSE capture_screenshot_except(out)
    /\ UNCHANGED <<handler, envVars, termVars, files, menuVars, reqVars,
                   batchVars, output_path, browser, context, sessVars, report>>

\* page.screenshot, to a temporary PNG when the output is webp
capture_screenshot_shot ==
    /\ pc = "cap_shot"
    /\ \E ok \in BOOLEAN :
          IF ok /\ ScreenshotSupported(ScreenshotTarget(output_path))
          THEN /\ files' = files \cup {ScreenshotTarget(output_path)}
               /\ pc' = IF output_path.ext = Webp THEN "cap_convert" ELSE "cap_close"
               /\ UNCHANGED <<pw, ret, endVars>>
          ELSE /\ capture_screenshot_except("Error")
               /\ UNCHANGED files
    /\ UNCHANGED <<handler, envVars, termVars, menuVars, reqVars,
                   batchVars, output_path, browser, context, sessVars, report>>

\* _convert_to_webp(temp_png, output_path)
capture_screenshot_convert ==
    /\ pc = "cap_convert"
    /\ \E out \in ConvertOutcomes :
          files' = convert_to_webp(files, WithSuffixPng(output_path), output_path, out)
    /\ pc' = "cap_close"
    /\ UNCHANGED <<handler, envVars, termVars, menuVars, reqVars, batchVars,
                   callVars, sessVars, report, endVars>>

\* context.close(), browser.close(), the end of the with block, return True
capture_screenshot_close ==
    /\ pc = "cap_close"
    /\ context' = "closed"
    /\ browser' = "closed"
    /\ pw' = "stopped"
    /\ ret' = TRUE
    /\ pc' = "batch_after"
    /\ UNCHANGED <<handler, envVars, termVars, files, menuVars, reqVars,
                   batchVars, output_path, sessVars, report, endVars>>

\* the body of the loop after capture_screenshot returned: on True,
\* output_path.stat() (FileNotFoundError when the file is not there, which
\* nothing catches) and success_count += 1; on False, "Failed"
batch_after ==
    /\ pc = "batch_after"
    /\ outcomes' = Append(outcomes, [width |-> widths[idx], ok |-> ret])
    /\ IF ret /\ output_path \notin files
       THEN /\ Propagate("FileNotFoundError")
            /\ UNCHANGED <<idx, success_count>>
       ELSE /\ success_count' = IF ret THEN success_count + 1 ELSE success_count
            /\ idx' = idx + 1
            /\ pc' = "batch_loop"
            /\ UNCHANGED endVars
    /\ UNCHANGED <<handler, envVars, termVars, files, menuVars, reqVars,
                   callVars, sessVars, report>>

\* after the loop: "Completed: {success_count}/{len(widths)} screenshots"
batch_report ==
    /\ pc = "batch_loop"
    /\ idx > Len(widths)
    /\ report' = <<success_count, Len(widths)>>
    /\ pc' = "batch_done"
    /\ UNCHANGED <<handler, envVars, termVars, files, menuVars, reqVars,
                   batchVars, callVars, sessVars, endVars>>

(***************************************************************************)
(* capture_interactive_multiwidth.                                         *)
(***************************************************************************)
\* the inner `except KeyboardInterrupt`, around the body of the while loop
session_loop_catches(e) == e = "KeyboardInterrupt"

\* the outer `except Exception as e`
session_catches(e) == IsException(e)

\* an exception raised in the session, inside the while loop's try (inLoop)
\* or before the loop: the loop's handler breaks to the cleanup; otherwise
\* the with block stops playwright and the outer handler returns False, or
\* the exception leaves the function; in both of these the cleanup and the
\* total-captures report are skipped
session_except(e, inLoop) ==
    IF inLoop /\ session_loop_catches(e)
    THEN /\ pc' = "sess_cleanup"
         /\ UNCHANGED <<pw, ret, endVars>>
    ELSE /\ pw' = "stopped"
         /\ IF session_catches(e)
            THEN /\ ret' = FALSE
                 /\ pc' = "sess_ret"
                 /\ UNCHANGED endVars
            ELSE /\ Propagate(e)
                 /\ UNCHANGED ret

\* the import of playwright
session_start ==
    /\ pc = "sess_start"
    /\ IF playwrightInstalled
       THEN /\ pc' = "sess_launch"
            /\ UNCHANGED ret
       ELSE /\ pc' = "sess_ret"
            /\ ret' = FALSE
    /\ UNCHANGED <<handler, envVars, termVars, files, menuVars, reqVars,
                   batchVars, output_path, pw, browser, context, sessVars,
                   report, endVars>>

\* sync_playwright() and p.chromium.launch(headless=False)
session_launch ==
    /\ pc = "sess_launch"
    /\ \E ok \in BOOLEAN :
          IF ok
          THEN /\ pw' = "running"
               /\ browser' = "open"
               /\ pc' = "sess_context"
               /\ UNCHANGED <<ret, endVars>>
          ELSE /\ session_except("Error", FALSE)
               /\ UNCHANGED browser
    /\ UNCHANGED <<handler, envVars, termVars, files, menuVars, reqVars,
                   batchVars, output_path, context, sessVars, report>>

\* browser.new_context at widths[0] and context.new_page
session_new_context ==
    /\ pc = "sess_context"
    /\ \E ok \in BOOLEAN :
          IF ok
          THEN /\ context' = "open"
               /\ pc' = "sess_goto"
               /\ UNCHANGED <<pw, ret, endVars>>
          ELSE /\ session_except("Error", FALSE)
               /\ UNCHANGED context
    /\ UNCHANGED <<handler, envVars, termVars, files, menuVars, reqVars,
                   batchVars, output_path, browser, sessVars, report>>

\* page.goto, then capture_round = 0 and total_captures = 0
session_goto ==
    /\ pc = "sess_goto"
    /\ \E out \in {"ok", "TimeoutError", Sigint} :
          IF out = "ok"
          THEN /\ pc' = "sess_wait"
               /\ UNCHANGED <<pw, ret, endVars>>
          ELSE session_except(out, FALSE)
    /\ capture_round' = 0
    /\ total_captures' = 0
    /\ UNCHANGED <<handler, envVars, termVars, files, menuVars, reqVars,
                   batchVars, output_path, browser, context, widx, current_url,
                   lineIn, shots, report>>

\* user_input == 'q', for user_input = input().strip().lower()
IsQuitLine(line) == Lower(Strip(line)) = <<"q">>

\* the top of the while loop: input() returns a line; 'q' breaks, anything
\* else starts a round at current_url = page.url
session_input ==
    /\ pc = "sess_wait"
    /\ \E line \in WaitLines :
          /\ lineIn' = line
          /\ IF IsQuitLine(line)
             THEN /\ pc' = "sess_cleanup"
                  /\ UNCHANGED <<widx, current_url>>
             ELSE /\ capture_round < MaxRounds
                  /\ \E u \in PageUrls : current_url' = u
                  /\ widx' = 1
                  /\ pc' = "sess_cap"
    /\ UNCHANGED <<handler, envVars, termVars, files, menuVars, reqVars,
                   batchVars, callVars, capture_round, total_captures, shots,
                   report, endVars>>

\* input() raises: EOFError at the end of stdin, or what a SIGINT raises
session_input_raises ==
    /\ pc = "sess_wait"
    /\ \E e \in {"EOFError", Sigint} : session_except(e, TRUE)
    /\ UNCHANGED <<handler, envVars, termVars, files, menuVars, reqVars,
                   batchVars, output_path, browser, context, sessVars, report>>

\* a variant of the session's output path: the round is appended in round 0 too
session_output_path_always_indexed(u, width, output_format, round) ==
    WithRound(get_output_filename(u, width, output_format), round)

\* the output path of one capture of a round: get_output_filename on the
\* current URL, with "_<capture_round>" before the suffix from round 1 on
session_output_path(u, width, output_format, round) ==
    IF round > 0
    THEN WithRound(get_output_filename(u, width, output_format), round)
    ELSE get_output_filename(u, width, output_format)

\* one pass of `for width in widths`: set_viewport_size, the output path,
\* the screenshot (with the webp conversion), output_path.stat() and
\* total_captures += 1.  A failing screenshot, or stat() on a webp that the
\* conversion did not write, raises through the loop's handler
session_capture ==
    /\ pc = "sess_cap"
    /\ widx <= Len(widths)
    /\ \E shot \in {"ok", "Error"}, conv \in ConvertOutcomes :
          LET path == session_output_path(current_url, widths[widx], fmt,
                                          capture_round)
              target == ScreenshotTarget(path)
              shotOk == shot = "ok" /\ ScreenshotSupported(target)
              disk == IF ~shotOk THEN files
                      ELSE IF path.ext = Webp
                      THEN convert_to_webp(files \cup {target}, target, path, conv)
                      ELSE files \cup {target}
          IN  /\ output_path' = path
              /\ files' = disk
              /\ IF ~shotOk
                 THEN /\ session_except("Error", TRUE)
                      /\ UNCHANGED <<total_captures, widx, shots>>
                 ELSE IF path \notin disk
                 THEN /\ session_except("FileNotFoundError", TRUE)
                      /\ UNCHANGED <<total_captures, widx, shots>>
                 ELSE /\ total_captures' = total_captures + 1
                      /\ shots' = Append(shots, [round |-> capture_round,
                                                 width |-> widths[widx],
                                                 path |-> path])
                      /\ widx' = widx + 1
                      /\ pc' = "sess_cap"
                      /\ UNCHANGED <<pw, ret, endVars>>
    /\ UNCHANGED <<handler, envVars, termVars, menuVars, reqVars, batchVars,
                   browser, context, capture_round, current_url, lineIn, report>>

\* after the for loop: capture_round += 1, and back to the prompt, where
\* user_input and current_url are assigned before they are read again (the
\* model forgets them here)
session_round_end ==
    /\ pc = "sess_cap"
    /\ widx > Len(widths)
    /\ capture_round' = capture_round + 1
    /\ lineIn' = <<>>
    /\ current_url' = <<>>
    /\ pc' = "sess_wait"
    /\ UNCHANGED <<handler, envVars, termVars, files, menuVars, reqVars,
                   batchVars, callVars, total_captures, widx, shots, report,
                   endVars>>

\* after the while loop: context.close(), browser.close(), "Total
\* captures", return total_captures > 0
session_cleanup ==
    /\ pc = "sess_cleanup"
    /\ context' = "closed"
    /\ browser' = "closed"
    /\ pw' = "stopped"
    /\ report' = <<total_captures>>
    /\ ret' = (total_captures > 0)
    /\ pc' = "sess_ret"
    /\ UNCHANGED <<handler, envVars, termVars, files, menuVars, reqVars,
                   batchVars, output_path, sessVars, endVars>>

(***************************************************************************)
(* The return to the caller.                                               *)
(***************************************************************************)
\* cli_mode returns to main and the process ends with status 0; the menu's
\* handlers wait for Enter and return to main's loop, which shows the menu
\* again.  The files of a finished request are dropped: a later request
\* meets them only under a name of the same second
return_to_main ==
    /\ pc \in {"batch_done", "sess_ret"}
    /\ IF entry = "cli"
       THEN /\ Terminate("none", 0)
            /\ UNCHANGED <<files, selected, reqVars, batchVars, callVars,
                           sessVars, report>>
       ELSE /\ BackToMenu
            /\ entry' = "menu"
            /\ url' = <<>>
            /\ widths' = <<>>
            /\ fmt' = <<>>
            /\ interactive' = FALSE
            /\ widthsLine' = <<>>
            /\ rejected' = FALSE
            /\ idx' = 1
            /\ success_count' = 0
            /\ outcomes' = <<>>
            /\ output_path' = NoPath
            /\ ret' = FALSE
            /\ pw' = "none"
            /\ browser' = "none"
            /\ context' = "none"
            /\ capture_round' = 0
            /\ total_captures' = 0
            /\ widx' = 1
            /\ current_url' = <<>>
            /\ lineIn' = <<>>
            /\ shots' = <<>>
            /\ report' = NoReport
            /\ files' = {}
            /\ UNCHANGED endVars
    /\ UNCHANGED <<handler, envVars, termVars, key, keyLine>>

Next ==
    \/ main
    \/ cli_mode
    \/ get_key_setraw
    \/ get_key_read
    \/ get_key_read_raises
    \/ get_key_fallback
    \/ get_key_fallback_raises
    \/ interactive_mode
    \/ handle_menu_selection
    \/ advanced_options
    \/ batch_next
    \/ capture_screenshot_launch
    \/ capture_screenshot_new_context
    \/ capture_screenshot_goto
    \/ capture_screenshot_shot
    \/ capture_screenshot_convert
    \/ capture_screenshot_close
    \/ batch_after
    \/ batch_report
    \/ session_start
    \/ session_launch
    \/ session_new_context
    \/ session_goto
    \/ session_input
    \/ session_input_raises
    \/ session_capture
    \/ session_round_end
    \/ session_cleanup
    \/ return_to_main

Spec == Init /\ [][Next]_vars

(***************************************************************************)
(* Properties.                                                             *)
(***************************************************************************)
\* the request is a batch capture that has been started
InBatch == entry \notin {"none", "menu"} /\ url # <<>> /\ ~rejected /\ ~interactive

\* the request is an interactive session that has been started
InSession == entry \notin {"none", "menu"} /\ url # <<>> /\ ~rejected /\ interactive

\* the exceptions a failing capture raises
CaptureFailures == {"Error", "TimeoutError", "ImportError"}

NumOk(log) == Cardinality({i \in 1..Len(log) : log[i].ok})

\* C1: in a batch capture a failure while capturing one width (a navigation
\* timeout, a screenshot or browser error, the missing library) never ends
\* the run: no such exception ends the process, the widths are attempted one
\* by one in the order of the list, and the report printed after the loop
\* has total = the number of widths requested, every one of them attempted,
\* and success = the number of widths whose capture returned True
C1_BatchFailureIsolated ==
    InBatch =>
        /\ uncaught \notin CaptureFailures
        /\ Len(outcomes) <= Len(widths)
        /\ \A i \in 1..Len(outcomes) : outcomes[i].width = widths[i]
        /\ pc = "batch_loop" => Len(outcomes) = idx - 1
        /\ pc = "batch_done" =>
              /\ Len(outcomes) = Len(widths)
              /\ report = <<NumOk(outcomes), Len(widths)>>

\* C1 witness: two widths, the first failed, the second captured, "1/2"
C1_Witness ==
    /\ InBatch
    /\ pc = "batch_done"
    /\ Len(widths) = 2
    /\ ~outcomes[1].ok
    /\ outcomes[2].ok
    /\ report = <<1, 2>>

\* C2: in a batch capture to webp, a conversion that cannot run or fails is
\* not fatal: the PNG stays on disk and no exception ends the run before
\* its report
C2_WebpConversionFailureNotFatal ==
    (InBatch /\ fmt = Webp) =>
        /\ (pc = "cap_close" /\ output_path \notin files)
              => WithSuffixPng(output_path) \in files
        /\ pc = "exited" => uncaught \in {"none", "SystemExit"}

\* C3: no capture call returns, and the process does not end, while the
\* context or the browser it opened has not been closed
C3_SessionAlwaysReleased ==
    pc \in {"batch_after", "sess_ret", "exited"} =>
        (browser # "open" /\ context # "open")

\* the pcs of capture_interactive_multiwidth's while loop
SessionLoopPcs == {"sess_wait", "sess_cap"}

\* the captures of the session so far are the rounds 0, 1, ... one after the
\* other, each the widths of the request in order, each capture under a
\* name with no index in round 0 and "_<round>" before the extension after
C4_RoundsInOrder ==
    InSession =>
        /\ \A i \in 1..Len(shots) :
              /\ shots[i].round = (i - 1) \div Len(widths)
              /\ shots[i].width = widths[((i - 1) % Len(widths)) + 1]
              /\ shots[i].path.width = shots[i].width
              /\ shots[i].path.ext = fmt
              /\ shots[i].path.idx =
                    IF shots[i].round = 0 THEN <<>> ELSE <<shots[i].round>>
        /\ pc = "sess_wait" => Len(shots) = capture_round * Len(widths)
        /\ pc = "sess_cap" => Len(shots) = capture_round * Len(widths) + widx - 1

\* a line read at the prompt ends the session when it is the quit sentinel
\* and starts a round at the first width otherwise; the round counter starts
\* at 0 and moves only at the end of a round, by one
C4_RoundStep ==
    /\ (pc = "sess_goto" /\ pc' = "sess_wait") => capture_round' = 0
    /\ (pc = "sess_wait" /\ pc' \in {"sess_cap", "sess_cleanup"}) =>
          /\ IsQuitLine(lineIn') <=> pc' = "sess_cleanup"
          /\ pc' = "sess_cap" => widx' = 1
          /\ shots' = shots
          /\ capture_round' = capture_round
    /\ (pc = "sess_cap" /\ pc' = "sess_wait") =>
          /\ Len(shots) = (capture_round + 1) * Len(widths)
          /\ capture_round' = capture_round + 1
    /\ (pc \in SessionLoopPcs /\ capture_round' # capture_round) =>
          (pc = "sess_cap" /\ pc' = "sess_wait")

\* C4: in an interactive session every line read at the prompt other than
\* the quit sentinel starts one round, in which the widths are captured
\* once each in the order of the list; the round counter starts at 0 and
\* grows by one per completed round; the names of round 0 carry no index and
\* those of round k > 0 carry _k before the extension; the quit sentinel
\* ends the session without starting a round
C4_InteractiveRounds == [] C4_RoundsInOrder /\ [][C4_RoundStep]_vars

\* C4 witness: two widths, two completed rounds, the third capture being the
\* first of round 1 under a name that carries _1
C4_Witness ==
    /\ InSession
    /\ pc = "sess_wait"
    /\ capture_round = 2
    /\ Len(widths) = 2
    /\ Len(shots) = 4
    /\ shots[1].path.idx = <<>>
    /\ shots[3].path.idx = <<1>>

\* C5: a SIGINT that arrives while the session waits for a line is handled
\* inside the session: the program never ends from within that wait
C5_InterruptHandledInSession == ~(pc = "exited" /\ exitAt = "sess_wait")

\* C6: whenever a capture is started, from any entry, the format handed to
\* it is png, jpeg or webp
C6_FormatAlwaysValid ==
    pc \in {"batch_loop", "sess_start"} => fmt \in ValidFormats

\* the tokens int() accepts, in order
RECURSIVE IntTokens(_)
IntTokens(toks) ==
    IF toks = <<>> THEN <<>>
    ELSE (IF ParseInt(Head(toks)).ok THEN <<ParseInt(Head(toks)).val>> ELSE <<>>)
         \o IntTokens(Tail(toks))

\* C7: wherever a comma-separated width list is parsed (cli_mode, Custom,
\* Advanced), the tokens that are recognised are kept, in order, as the
\* widths of the request, whatever unrecognised tokens stand between them,
\* and the request is not refused; in cli_mode an empty result becomes 1920
C7_InvalidTokenSkipped ==
    (entry \in {"cli", "custom", "advanced"} /\ (url # <<>> \/ rejected)) =>
        LET kept == IF entry = "custom"
                    THEN IntTokens(Split(Strip(widthsLine), ","))
                    ELSE ParseWidths(widthsLine)
        IN  /\ kept # <<>> => (~rejected /\ widths = kept)
            /\ (entry = "cli" /\ kept = <<>>) => widths = <<DEFAULT_WIDTH>>

\* the pcs of interactive_mode's loop, get_key included
MenuPcs == {"menu", "key_raw", "key_fallback", "menu_dispatch"}

C8_MenuStep ==
    /\ (pc = "menu_dispatch" /\ key = KeyUp) =>
          selected' = (IF selected = 0 THEN NumOptions - 1 ELSE selected - 1)
    /\ (pc = "menu_dispatch" /\ key = KeyDown) =>
          selected' = (IF selected = NumOptions - 1 THEN 0 ELSE selected + 1)
    /\ (pc = "menu_dispatch" /\ key \notin {KeyUp, KeyDown}) => selected' = selected
    /\ pc \in (MenuPcs \ {"menu_dispatch"}) => selected' = selected
    /\ (pc \notin MenuPcs /\ pc' = "menu") => selected' = 0

\* C8: in the menu loop the selected index starts at 0, stays within
\* 0..len(options)-1, moves only on Up and Down, which wrap at both ends,
\* and is left alone by every other key
C8_MenuIndexWraps ==
    [] (selected \in 0..(NumOptions - 1)) /\ [][C8_MenuStep]_vars

\* C8 witness: Up was the key just handled and the index is the last one:
\* it came from index 0
C8_Witness ==
    /\ pc = "menu"
    /\ key = KeyUp
    /\ selected = NumOptions - 1

\* C9: once get_key has put the terminal into raw mode, the terminal is back
\* at the settings saved before the read whenever control is outside the
\* read: after a return and after an exception or interrupt in the read
C9_TerminalRestored ==
    /\ termMode = "raw" => pc = "key_raw"
    /\ (pc # "key_raw" /\ old_settings # "none") => termMode = old_settings

\* C9 witness: the read raised, and the fallback runs with the terminal at
\* its saved settings
C9_Witness ==
    /\ pc = "key_fallback"
    /\ tty
    /\ old_settings = "noecho"
    /\ termMode = "noecho"

\* C10: without a terminal the line-input fallback yields the key the raw
\* reader would: an empty line is Enter, and otherwise the first character
\* of the line is classified by the raw reader's rules
C10_FallbackSameAsRaw ==
    (pc = "menu_dispatch" /\ keyLine # <<"none">>) =>
        key = (IF keyLine = <<>> THEN KeyEnter ELSE ClassifyRaw(<<Head(keyLine)>>))

\* the host with one leading "www." removed, when it starts with it, and
\* then every "." replaced by "-"
LeadingWwwStem(host) ==
    Replace(IF StartsWith(host, <<"w","w","w",".">>) THEN Drop(host, 4) ELSE host,
            <<".">>, <<"-">>)

\* C11: the stem of every output file name is the host of the URL it was
\* built from, with exactly one leading "www." removed (only as a prefix,
\* only once) and every "." replaced by "-"; a "www." elsewhere in the host
\* stays
C11_StemStripsLeadingWwwOnly ==
    /\ (InBatch /\ output_path # NoPath) =>
          output_path.base = LeadingWwwStem(Netloc(url))
    /\ (InSession /\ pc = "sess_cap" /\ widx > 1) =>
          output_path.base = LeadingWwwStem(Netloc(current_url))

\* a step of the for loop over the widths in which page.screenshot failed
\* (neither the screenshot's target nor the output file is written) goes on
\* to the next width with the session as it was
C12_FailedWidthStep ==
    (/\ InSession
     /\ pc = "sess_cap"
     /\ Len(widths) > 1
     /\ widx <= Len(widths)
     /\ fmt \in ValidFormats
     /\ ScreenshotTarget(output_path') \notin files'
     /\ output_path' \notin files')
    => /\ pc' = "sess_cap"
       /\ widx' = widx + 1
       /\ total_captures' = total_captures
       /\ pw' = pw
       /\ browser' = browser
       /\ context' = context
       /\ ret' = ret

\* C12: in an interactive session, a screenshot failure at one width of a
\* round is caught and does not abort the sibling widths: the loop goes on
\* to the remaining widths of the round, the session stays open for further
\* rounds, and the captures already made keep counting towards its result
C12_ScreenshotFailureIsolated == [][C12_FailedWidthStep]_vars

=============================================================================
